---- MODULE Spec2Model ----
(***************************************************************************)
(* Model of the PDF extraction backend (website/backend/server.js, kept in *)
(* src/unnamed/part_001 from line 68 on): the multer upload middleware,    *)
(* the POST /api/extract handler with its await points, the external       *)
(* Python extractor, and the two directories the handler works on          *)
(* (uploads/ and output/).                                                 *)
(*                                                                         *)
(* A file base name is a pair <<n, t>>: n is the index of the original     *)
(* name (0 is a name the extractor made up itself) and t the Date.now()    *)
(* suffix multer appends (0: no suffix, i.e. the original base name).      *)
(***************************************************************************)
EXTENDS Integers, Sequences, FiniteSets, TLC

\* ------------------------------------------------------------------ bounds
NReq == 2        \* requests served
NNames == 1      \* distinct original file names clients use
MaxClock == 2    \* Date.now() values
MaxJobs == 2     \* Start Analysis clicks

ReqIds == 1..NReq
Names == 1..NNames
Times == 1..MaxClock

\* ------------------------------------------------------------------ values
Kinds == {"none", "wrongfield", "notpdf", "oversize", "empty", "pdf"}

NoInput == [kind |-> "unset", name |-> 0]
NoPath == <<0, 0>>
NoFile == [base |-> NoPath, ext |-> "none"]
NoContent == [by |-> 0, q |-> "none"]
NoChoice == [txt |-> NoFile, json |-> NoFile, by |-> "none"]
NoSeen == [nstored |-> 0, original |-> FALSE, pairs |-> 0, ntxt |-> 0, njson |-> 0,
           looked |-> FALSE]
Undefined == "undefined"
NoPrediction == [present |-> FALSE, ai_analysis_available |-> FALSE, feasibility |-> Undefined]
NoResp == [status |-> 0, success |-> FALSE, error |-> "", details |-> "",
           txtContent |-> NoContent, jsonContent |-> NoContent, fields |-> {},
           prediction |-> NoPrediction]

VARIABLES
    now,       \* Date.now()
    pc,        \* position of each request in middleware / handler
    input,     \* what the client sent
    stored,    \* req.file.filename (base name), NoPath while req.file is unset
    uploads,   \* uploads/ directory: base name -> request that wrote it last
    output,    \* output/ directory: file -> content (tagged by producer)
    proc,      \* the extraction child process of each request
    invoked,   \* how many times the request has started the extractor
    seen,      \* what artifact resolution found on disk
    chosen,    \* txtFile / jsonFile after resolution
    got,       \* txtContent / jsonContent read
    error,     \* the exception on its way to the catch block ("" if none)
    resp,      \* the response sent
    nresp,     \* number of responses sent
    removes,   \* how many times the handler called fs.remove on the upload
    rerun,     \* the request repeats one that had already been answered
    \* the dashboard frontend (App.js): its React state ...
    file,        \* the selected file (NoUpload for null)
    showWizard,
    wizardStep,
    loading,
    results,     \* response.data of the last resolved upload (NoResp for null)
    uiError,     \* the `error` state of App ("" if none)
    jobQueue,    \* the analysis queue: jobs [id, stage] in insertion order
    \* ... and what it has pending in the browser
    timers,      \* per Start Analysis click: its jobId and the next timer due
    flight,      \* per handleUpload call: the state of its axios.post
    dragActive   \* (simple uploader only) a drag is over the upload area

srvVars == <<pc, input, stored, uploads, output, proc, invoked, seen, chosen,
            got, error, resp, nresp, removes, rerun>>

uiVars == <<file, showWizard, wizardStep, loading, results, uiError, jobQueue,
           timers, flight, dragActive>>

vars == <<now, srvVars, uiVars>>

\* ----------------------------------------------------------------- helpers
File(b, e) == [base |-> b, ext |-> e]

Exists(dir, f) == f \in DOMAIN dir

WriteFile(dir, f, c) == [x \in DOMAIN dir \cup {f} |-> IF x = f THEN c ELSE dir[x]]

RemoveFile(dir, f) == [x \in DOMAIN dir \ {f} |-> dir[x]]

\* readdir lists names in order; names compare by (n, t)
NameLess(a, b) == a[1] < b[1] \/ (a[1] = b[1] /\ a[2] < b[2])

LastOf(S) == CHOOSE f \in S : \A g \in S : g = f \/ NameLess(g.base, f.base)

Upd(f, r, v) == [f EXCEPT ![r] = v]

NoUpload == [name |-> 0, type |-> "none"]

\* the useState initial values of App; nothing pending
UIInit ==
    /\ file = NoUpload
    /\ showWizard = FALSE
    /\ wizardStep = 1
    /\ loading = FALSE
    /\ results = NoResp
    /\ uiError = ""
    /\ jobQueue = << >>
    /\ timers = << >>
    /\ flight = << >>
    /\ dragActive = FALSE

Init ==
    /\ now = 1
    /\ pc = [r \in ReqIds |-> "idle"]
    /\ input = [r \in ReqIds |-> NoInput]
    /\ stored = [r \in ReqIds |-> NoPath]
    /\ uploads = << >>
    /\ output = << >>
    /\ proc = [r \in ReqIds |-> "none"]
    /\ invoked = [r \in ReqIds |-> 0]
    /\ seen = [r \in ReqIds |-> NoSeen]
    /\ chosen = [r \in ReqIds |-> NoChoice]
    /\ got = [r \in ReqIds |-> [txt |-> NoContent, json |-> NoContent]]
    /\ error = [r \in ReqIds |-> ""]
    /\ resp = [r \in ReqIds |-> NoResp]
    /\ nresp = [r \in ReqIds |-> 0]
    /\ removes = [r \in ReqIds |-> 0]
    /\ rerun = [r \in ReqIds |-> FALSE]
    /\ UIInit

\* the clock advances
Tick ==
    /\ now < MaxClock
    /\ now' = now + 1
    /\ UNCHANGED <<srvVars, uiVars>>

\* ---------------------------------------------------------- the request
\* what each kind of request carries: the multipart field of the file part,
\* its declared MIME type and its size against the 50MB limit
Field(k) == CASE k = "none" -> "none" [] k = "wrongfield" -> "file" [] OTHER -> "pdf"

Mime(k) == IF k = "notpdf" THEN "text/plain" ELSE "application/pdf"

OverLimit(k) == k = "oversize"

\* ------------------------------------------------------------- responses
Reply(st, msg) == [NoResp EXCEPT !.status = st, !.error = msg, !.fields = {"error"}]

\* the body of the 500 response of the catch block
Failure(cause) ==
    [NoResp EXCEPT !.status = 500, !.error = "Failed to process PDF file",
                   !.details = cause, !.fields = {"error", "details"}]

\* the keys of the `response` object of the success path
SuccessFields ==
    {"success", "txtContent", "txtFilename", "jsonContent", "jsonFilename", "metadata"}

Success(txt, json) ==
    [NoResp EXCEPT !.status = 200, !.success = TRUE, !.txtContent = txt,
                   !.jsonContent = json, !.fields = SuccessFields]

\* the error-handling middleware: error (code or message) -> response
ErrorMiddleware(e) ==
    CASE e = "LIMIT_FILE_SIZE" -> Reply(400, "File too large (max 50MB)")
      [] e = "LIMIT_FILE_COUNT" -> Reply(400, "Too many files")
      [] e = "Only PDF files are allowed!" -> Reply(400, "Only PDF files are allowed")
      [] OTHER -> Reply(500, "Internal server error")

\* ----------------------------------------------------------------- multer
FileFilter_any(mime) == TRUE

FileFilter(mime) == mime = "application/pdf"

\* storage.filename: `${baseName}_${timestamp}${extension}`
StorageFilename(n, t) == <<n, t>>

Send(r, response) ==
    /\ resp' = Upd(resp, r, response)
    /\ nresp' = Upd(nresp, r, nresp[r] + 1)
    /\ pc' = Upd(pc, r, "done")

\* the request carries the same document as one already answered
Repeats(r, k, n) ==
    /\ k \in {"pdf", "empty"}
    /\ \E q \in ReqIds : q # r /\ pc[q] = "done" /\ input[q] = [kind |-> k, name |-> n]

\* upload.single('pdf') meets the request: requests without a usable file part
\* are answered at once, for the others the file starts streaming to uploads/
MulterStart(r, k, n) ==
    /\ pc[r] = "idle"
    /\ \A q \in ReqIds : q < r => pc[q] # "idle"   \* ids number the arrivals
    /\ input' = Upd(input, r, [kind |-> k, name |-> n])
    /\ IF Field(k) = "none"
         THEN \* req.file is undefined: the handler's own check answers
              /\ Send(r, Reply(400, "No PDF file uploaded"))
              /\ UNCHANGED <<stored, uploads>>
       ELSE IF Field(k) # "pdf"
         THEN /\ Send(r, ErrorMiddleware("LIMIT_UNEXPECTED_FILE"))
              /\ UNCHANGED <<stored, uploads>>
       ELSE IF ~FileFilter(Mime(k))
         THEN /\ Send(r, ErrorMiddleware("Only PDF files are allowed!"))
              /\ UNCHANGED <<stored, uploads>>
       ELSE /\ stored' = Upd(stored, r, StorageFilename(n, now))
            /\ uploads' = WriteFile(uploads, StorageFilename(n, now), r)
            /\ pc' = Upd(pc, r, "uploading")
            /\ UNCHANGED <<resp, nresp>>
    /\ rerun' = Upd(rerun, r, Repeats(r, k, n))
    /\ UNCHANGED <<now, output, proc, invoked, seen, chosen, got, error, removes, uiVars>>

\* the stream ends: over the fileSize limit multer removes what it wrote and
\* raises LIMIT_FILE_SIZE, otherwise req.file is set and the handler runs
MulterFinish(r) ==
    /\ pc[r] = "uploading"
    /\ IF OverLimit(input[r].kind)
         THEN /\ uploads' = RemoveFile(uploads, stored[r])
              /\ Send(r, ErrorMiddleware("LIMIT_FILE_SIZE"))
         ELSE /\ pc' = Upd(pc, r, "accepted")
              /\ UNCHANGED <<uploads, resp, nresp>>
    /\ UNCHANGED <<now, input, stored, output, proc, invoked, seen, chosen,
                   got, error, removes, rerun, uiVars>>

\* ---------------------------------------------------------------- handler
\* const outputDir = path.join(__dirname, 'output')
OutputDir(r) == "output"

Throw(r, cause) ==
    /\ error' = Upd(error, r, cause)
    /\ pc' = Upd(pc, r, "catch")

\* (the same without `await` before runPythonExtractor)
HandlerStart_noawait(r, dirOk, hangs) ==
    /\ pc[r] = "accepted"
    /\ dirOk
    /\ proc' = Upd(proc, r, IF hangs THEN "hung" ELSE "running")
    /\ invoked' = Upd(invoked, r, invoked[r] + 1)
    /\ pc' = Upd(pc, r, "resolving")
    /\ UNCHANGED <<now, input, stored, uploads, output, seen, chosen, got,
                   error, resp, nresp, removes, rerun, uiVars>>

\* fs.ensureDir, then runPythonExtractor starts the child process (exec with
\* no timeout option); the child may be one that never terminates
HandlerStart(r, dirOk, hangs) ==
    /\ pc[r] = "accepted"
    /\ IF dirOk
         THEN /\ proc' = Upd(proc, r, IF hangs THEN "hung" ELSE "running")
              /\ invoked' = Upd(invoked, r, invoked[r] + 1)
              /\ pc' = Upd(pc, r, "extracting")
              /\ UNCHANGED error
         ELSE /\ hangs = FALSE
              /\ Throw(r, "EnsureDirError")
              /\ UNCHANGED <<proc, invoked>>
    /\ UNCHANGED <<now, input, stored, uploads, output, seen, chosen, got,
                   resp, nresp, removes, rerun, uiVars>>

\* what the external extractor may do before it exits
ExtractOutcomes ==
    {o \in [exit : {"ok", "fail"}, naming : {"stored", "original", "other"},
            writes : {"both", "txt", "none"}, txtq : {"text", "empty"},
            jsonq : {"meta", "nometa", "malformed"}] :
        /\ o.writes # "both" => o.naming = "stored" /\ o.txtq = "text" /\ o.jsonq = "meta"
        /\ o.naming # "stored" => o.txtq = "text" /\ o.jsonq = "meta"
        /\ o.txtq = "empty" => o.jsonq = "meta"
        /\ o.exit = "fail" => o.writes = "none"}

OutputBase(r, naming) ==
    CASE naming = "stored" -> stored[r]
      [] naming = "original" -> <<input[r].name, 0>>
      [] OTHER -> <<0, 0>>

WriteOutputs(dir, r, o) ==
    LET b == OutputBase(r, o.naming)
        d1 == IF o.writes \in {"both", "txt"}
                THEN WriteFile(dir, File(b, "txt"), [by |-> r, q |-> o.txtq])
                ELSE dir
    IN IF o.writes = "both"
         THEN WriteFile(d1, File(b, "json"), [by |-> r, q |-> o.jsonq])
         ELSE d1

\* the child process exits: execPromise resolves, or rejects on a non-zero
\* exit code (runPythonExtractor rethrows)
ExtractorExit(r, o) ==
    /\ pc[r] = "extracting"
    /\ proc[r] = "running"
    /\ proc' = Upd(proc, r, "exited")
    /\ output' = WriteOutputs(output, r, o)
    /\ IF o.exit = "ok"
         THEN /\ pc' = Upd(pc, r, "resolving")
              /\ UNCHANGED error
         ELSE Throw(r, "ExecError")
    /\ UNCHANGED <<now, input, stored, uploads, invoked, seen, chosen, got,
                   resp, nresp, removes, rerun, uiVars>>

\* ---------------------------------------------------- artifact resolution
\* `const txtFile` / `const jsonFile`: the bindings the fallbacks assign to
TxtFileIsConst_let == FALSE

TxtFileIsConst == TRUE

TxtFiles(dir) == {f \in DOMAIN dir : f.ext = "txt"}

JsonFiles(dir) == {f \in DOMAIN dir : f.ext = "json"}

\* base names present with both a .txt and a .json file
Pairs(dir) == {f.base : f \in TxtFiles(dir)} \cap {f.base : f \in JsonFiles(dir)}

\* what the existence checks and readdir see
Look(r, dir) ==
    [nstored |-> Cardinality({e \in {"txt", "json"} : Exists(dir, File(stored[r], e))}),
     original |-> /\ Exists(dir, File(<<input[r].name, 0>>, "txt"))
                  /\ Exists(dir, File(<<input[r].name, 0>>, "json")),
     pairs |-> Cardinality(Pairs(dir)),
     ntxt |-> Cardinality(TxtFiles(dir)),
     njson |-> Cardinality(JsonFiles(dir)),
     looked |-> TRUE]

\* an assignment `txtFile = ...; jsonFile = ...` to the bindings above
Assign(txt, json, by) ==
    IF TxtFileIsConst
      THEN [ok |-> FALSE, cause |-> "TypeError", choice |-> NoChoice]
      ELSE [ok |-> TRUE, cause |-> "", choice |-> [txt |-> txt, json |-> json, by |-> by]]

\* lines 148-172: the stored-name pair, else the original-name pair, else
\* the last .txt and the last .json of the directory listing
Resolution(r, dir) ==
    LET base == stored[r]
        alt == <<input[r].name, 0>>
    IN IF Exists(dir, File(base, "txt")) /\ Exists(dir, File(base, "json"))
         THEN [ok |-> TRUE, cause |-> "",
               choice |-> [txt |-> File(base, "txt"), json |-> File(base, "json"),
                           by |-> "ExactMatch"]]
       ELSE IF Exists(dir, File(alt, "txt")) /\ Exists(dir, File(alt, "json"))
         THEN Assign(File(alt, "txt"), File(alt, "json"), "OriginalNameMatch")
       ELSE IF TxtFiles(dir) # {} /\ JsonFiles(dir) # {}
         THEN Assign(LastOf(TxtFiles(dir)), LastOf(JsonFiles(dir)), "DirectoryScan")
       ELSE [ok |-> FALSE, cause |-> "Output files not found after extraction",
             choice |-> NoChoice]

Resolve(r) ==
    /\ pc[r] = "resolving"
    /\ seen' = Upd(seen, r, Look(r, output))
    /\ LET res == Resolution(r, output)
       IN /\ chosen' = Upd(chosen, r, res.choice)
          /\ IF res.ok
               THEN /\ pc' = Upd(pc, r, "reading")
                    /\ UNCHANGED error
               ELSE Throw(r, res.cause)
    /\ UNCHANGED <<now, input, stored, uploads, output, proc, invoked, got,
                   resp, nresp, removes, rerun, uiVars>>

\* ------------------------------------------------------------ read / parse
\* fs.readFile(f, 'utf8'): rejects when the file is missing or unreadable
ReadFile_swallow(dir, f, readable) ==
    IF Exists(dir, f) /\ readable
      THEN [ok |-> TRUE, cause |-> "", content |-> dir[f]]
      ELSE [ok |-> TRUE, cause |-> "", content |-> NoContent]

ReadFile(dir, f, readable) ==
    IF ~Exists(dir, f) THEN [ok |-> FALSE, cause |-> "ENOENT", content |-> NoContent]
    ELSE IF ~readable THEN [ok |-> FALSE, cause |-> "EIO", content |-> NoContent]
    ELSE [ok |-> TRUE, cause |-> "", content |-> dir[f]]

\* JSON.parse: throws SyntaxError on text that is not JSON
JsonParse(c) ==
    IF c.q = "malformed" THEN [ok |-> FALSE, cause |-> "SyntaxError", content |-> NoContent]
    ELSE [ok |-> TRUE, cause |-> "", content |-> c]

\* lines 174-175
ReadOutputs(r, txtReadable, jsonReadable) ==
    /\ pc[r] = "reading"
    /\ LET t == ReadFile(output, chosen[r].txt, txtReadable)
           j == ReadFile(output, chosen[r].json, jsonReadable)
           p == IF j.ok THEN JsonParse(j.content) ELSE j
       IN IF ~t.ok
            THEN /\ jsonReadable = TRUE
                 /\ Throw(r, t.cause)
                 /\ UNCHANGED got
          ELSE IF ~p.ok
            THEN /\ Throw(r, p.cause)
                 /\ got' = Upd(got, r, [txt |-> t.content, json |-> NoContent])
          ELSE /\ got' = Upd(got, r, [txt |-> t.content, json |-> p.content])
               /\ pc' = Upd(pc, r, "cleanup")
               /\ UNCHANGED error
    /\ UNCHANGED <<now, input, stored, uploads, output, proc, invoked, seen,
                   chosen, resp, nresp, removes, rerun, uiVars>>

\* ------------------------------------------------------ cleanup / response
\* fs.remove(path): removes the file (no error if it is already gone), or
\* rejects and leaves it
Remove(dir, f, removeOk) == IF removeOk THEN RemoveFile(dir, f) ELSE dir

\* (a handler that does not wait for the removal to succeed)
RemoveAndRespond_ignore(r, removeOk) ==
    /\ pc[r] = "cleanup"
    /\ uploads' = Remove(uploads, stored[r], removeOk)
    /\ Send(r, Success(got[r].txt, got[r].json))
    /\ removes' = Upd(removes, r, removes[r] + 1)
    /\ UNCHANGED <<now, input, stored, output, proc, invoked, seen, chosen, got,
                   error, rerun, uiVars>>

\* lines 177-192: remove the upload, then send the success response
RemoveAndRespond(r, removeOk) ==
    /\ pc[r] = "cleanup"
    /\ uploads' = Remove(uploads, stored[r], removeOk)
    /\ IF removeOk
         THEN /\ Send(r, Success(got[r].txt, got[r].json))
              /\ UNCHANGED error
         ELSE /\ Throw(r, "EPERM")
              /\ UNCHANGED <<resp, nresp>>
    /\ removes' = Upd(removes, r, removes[r] + 1)
    /\ UNCHANGED <<now, input, stored, output, proc, invoked, seen, chosen, got,
                   rerun, uiVars>>

\* (a catch block that runs the handler again after a failure)
Catch_retry(r, removeOk) ==
    /\ pc[r] = "catch"
    /\ removeOk
    /\ IF invoked[r] < 2
         THEN /\ pc' = Upd(pc, r, "accepted")
              /\ error' = Upd(error, r, "")
              /\ UNCHANGED <<resp, nresp>>
         ELSE /\ Send(r, Failure(error[r]))
              /\ UNCHANGED error
    /\ UNCHANGED <<now, input, stored, uploads, output, proc, invoked, seen,
                   chosen, got, removes, rerun, uiVars>>

\* (the catch block without its cleanup)
Catch_skipCleanup(r, removeOk) ==
    /\ pc[r] = "catch"
    /\ removeOk
    /\ Send(r, Failure(error[r]))
    /\ UNCHANGED <<now, input, stored, uploads, output, proc, invoked, seen,
                   chosen, got, error, removes, rerun, uiVars>>

\* lines 194-209: the catch block
Catch(r, removeOk) ==
    /\ pc[r] = "catch"
    /\ uploads' = Remove(uploads, stored[r], removeOk)
    /\ removes' = Upd(removes, r, removes[r] + 1)
    /\ Send(r, Failure(error[r]))
    /\ UNCHANGED <<now, input, stored, output, proc, invoked, seen, chosen, got,
                   error, rerun, uiVars>>

Next ==
    \/ Tick
    \/ \E r \in ReqIds, k \in Kinds, n \in Names : MulterStart(r, k, n)
    \/ \E r \in ReqIds : MulterFinish(r)
    \/ \E r \in ReqIds, dirOk \in BOOLEAN, hangs \in BOOLEAN : HandlerStart(r, dirOk, hangs)
    \/ \E r \in ReqIds, o \in ExtractOutcomes : ExtractorExit(r, o)
    \/ \E r \in ReqIds : Resolve(r)
    \/ \E r \in ReqIds, tr \in BOOLEAN, jr \in BOOLEAN : ReadOutputs(r, tr, jr)
    \/ \E r \in ReqIds, removeOk \in BOOLEAN : RemoveAndRespond(r, removeOk)
    \/ \E r \in ReqIds, removeOk \in BOOLEAN : Catch(r, removeOk)

Spec == Init /\ [][Next]_vars

\* The event loop runs every continuation that is ready, and a child process
\* that terminates does exit; arrivals and the clock are not forced.
Step(r) ==
    \/ MulterFinish(r)
    \/ \E dirOk \in BOOLEAN, hangs \in BOOLEAN : HandlerStart(r, dirOk, hangs)
    \/ \E o \in ExtractOutcomes : ExtractorExit(r, o)
    \/ Resolve(r)
    \/ \E tr \in BOOLEAN, jr \in BOOLEAN : ReadOutputs(r, tr, jr)
    \/ \E removeOk \in BOOLEAN : RemoveAndRespond(r, removeOk)
    \/ \E removeOk \in BOOLEAN : Catch(r, removeOk)

FairSpec == Spec /\ \A r \in ReqIds : WF_vars(Step(r))

\* ---------------------------------------------------- dashboard frontend
\* formData.append('file', file): the multipart field both frontends use
FormField == "file"

\* the requests handleUpload produces for a selected PDF, as the server sees
\* them: that field, a PDF type, any content below the size limit
FrontendKinds ==
    {k \in Kinds : Field(k) = FormField /\ Mime(k) = "application/pdf" /\ ~OverLimit(k)}

\* what a file-selection event can carry: nothing, a PDF or another file
Selections ==
    {NoUpload} \cup [name : Names, type : {"application/pdf", "text/plain"}]

\* (a handler that takes any file that was picked)
HandleFileChange_anyType(f) ==
    /\ showWizard
    /\ wizardStep = 1
    /\ IF f # NoUpload
         THEN /\ file' = f
              /\ uiError' = ""
         ELSE /\ file' = NoUpload
              /\ uiError' = "Please select a valid PDF file"
    /\ UNCHANGED <<now, srvVars, dragActive, showWizard, wizardStep, loading, results, jobQueue,
                   timers, flight>>

\* handleFileChange (the file input of wizard step 1)
HandleFileChange(f) ==
    /\ showWizard
    /\ wizardStep = 1
    /\ IF f # NoUpload /\ f.type = "application/pdf"
         THEN /\ file' = f
              /\ uiError' = ""
         ELSE /\ file' = NoUpload
              /\ uiError' = "Please select a valid PDF file"
    /\ UNCHANGED <<now, srvVars, dragActive, showWizard, wizardStep, loading, results, jobQueue,
                   timers, flight>>

StartWizard ==
    /\ showWizard' = TRUE
    /\ wizardStep' = 1
    /\ UNCHANGED <<now, srvVars, dragActive, file, loading, results, uiError, jobQueue, timers, flight>>

CloseWizard ==
    /\ showWizard
    /\ showWizard' = FALSE
    /\ wizardStep' = 1
    /\ UNCHANGED <<now, srvVars, dragActive, file, loading, results, uiError, jobQueue, timers, flight>>

\* (nextStep without its bound)
NextStep_unbounded ==
    /\ showWizard
    /\ wizardStep' = wizardStep + 1
    /\ UNCHANGED <<now, srvVars, dragActive, file, showWizard, loading, results, uiError,
                   jobQueue, timers, flight>>

NextStep ==
    /\ showWizard
    /\ wizardStep' = IF wizardStep < 4 THEN wizardStep + 1 ELSE wizardStep
    /\ UNCHANGED <<now, srvVars, dragActive, file, showWizard, loading, results, uiError, jobQueue,
                   timers, flight>>

PrevStep ==
    /\ showWizard
    /\ wizardStep' = IF wizardStep > 1 THEN wizardStep - 1 ELSE wizardStep
    /\ UNCHANGED <<now, srvVars, dragActive, file, showWizard, loading, results, uiError, jobQueue,
                   timers, flight>>

\* the x button of the error toast
DismissError ==
    /\ uiError # ""
    /\ uiError' = ""
    /\ UNCHANGED <<now, srvVars, dragActive, file, showWizard, wizardStep, loading, results, jobQueue,
                   timers, flight>>

\* the Start Analysis button of wizard step 4 (disabled without a file):
\* closeWizard, a new job at stage 1 with id Date.now(), six timers for it,
\* then handleUpload up to its axios.post. The click closes the wizard, so
\* the next click comes after the wizard was reopened and stepped through
\* again: later than the millisecond of this one.
StartAnalysis ==
    /\ showWizard
    /\ wizardStep = 4
    /\ file # NoUpload
    /\ Len(jobQueue) < MaxJobs
    /\ \A c \in DOMAIN jobQueue : jobQueue[c].id < now
    /\ showWizard' = FALSE
    /\ wizardStep' = 1
    /\ jobQueue' = Append(jobQueue, [id |-> now, stage |-> 1])
    /\ timers' = Append(timers, [jobId |-> now, next |-> 1])
    /\ loading' = TRUE
    /\ uiError' = ""
    /\ results' = NoResp
    /\ flight' = Append(flight, "inflight")
    /\ UNCHANGED <<now, srvVars, dragActive, file>>

\* (an updater that does not compare ids)
SetStage_all(queue, jobId, stage) ==
    [i \in DOMAIN queue |-> [queue[i] EXCEPT !.stage = stage]]

\* setJobQueue(prev => prev.map(job => job.id === jobId ? {...job, stage} : job))
SetStage(queue, jobId, stage) ==
    [i \in DOMAIN queue |->
        IF queue[i].id = jobId THEN [queue[i] EXCEPT !.stage = stage] ELSE queue[i]]

\* the next setTimeout callback of click c runs (delays stage * 2000 ms: a
\* callback is never overtaken by a later one of the same or a later click)
TimerFires(c) ==
    /\ c \in DOMAIN timers
    /\ timers[c].next <= 6
    /\ \A b \in DOMAIN timers : b < c => timers[b].next > timers[c].next
    /\ jobQueue' = SetStage(jobQueue, timers[c].jobId, timers[c].next)
    /\ timers' = [timers EXCEPT ![c].next = @ + 1]
    /\ UNCHANGED <<now, srvVars, dragActive, file, showWizard, wizardStep, loading, results, uiError,
                   flight>>

\* the prediction object of a response: a verdict, or ai_analysis_available
\* false with a reason and no feasibility
Predictions ==
    [present : {TRUE}, ai_analysis_available : {TRUE}, feasibility : {"Feasible", "Risky"}]
        \cup {[present |-> TRUE, ai_analysis_available |-> FALSE, feasibility |-> Undefined]}

WithPrediction(response, p) ==
    [response EXCEPT !.prediction = p, !.fields = @ \cup {"prediction"}]

\* what the backend on port 5000 may answer
Replies ==
    {Success([by |-> 1, q |-> "text"], [by |-> 1, q |-> "meta"]),
     Failure("ExecError"),
     ErrorMiddleware("LIMIT_UNEXPECTED_FILE")}
    \cup {WithPrediction(Success([by |-> 1, q |-> "text"], [by |-> 1, q |-> "meta"]), p) :
              p \in Predictions}

\* the axios.post of handleUpload call c settles: a 2xx response resolves it,
\* any other response or a network failure rejects it; finally setLoading(false)
UploadSettles(c, netOk, reply) ==
    /\ c \in DOMAIN flight
    /\ flight[c] = "inflight"
    /\ IF netOk /\ reply.status = 200
         THEN /\ results' = reply
              /\ flight' = [flight EXCEPT ![c] = "ok"]
              /\ UNCHANGED uiError
         ELSE /\ uiError' = IF netOk /\ reply.error # "" THEN reply.error
                            ELSE "Error processing file. Please try again."
              /\ flight' = [flight EXCEPT ![c] = "failed"]
              /\ UNCHANGED results
    /\ loading' = FALSE
    /\ UNCHANGED <<now, srvVars, dragActive, file, showWizard, wizardStep, jobQueue, timers>>

UINext ==
    \/ Tick
    \/ \E f \in Selections : HandleFileChange(f)
    \/ StartWizard
    \/ CloseWizard
    \/ NextStep
    \/ PrevStep
    \/ DismissError
    \/ StartAnalysis
    \/ \E c \in 1..MaxJobs : TimerFires(c)
    \/ \E c \in 1..MaxJobs, netOk \in BOOLEAN, reply \in Replies : UploadSettles(c, netOk, reply)

UISpec == Init /\ [][UINext]_vars

\* a timer that is due does run; the user and the network are not forced
UIFairSpec == UISpec /\ \A c \in 1..MaxJobs : WF_vars(TimerFires(c))

\* ------------------------------------------------------ simple uploader
\* The single-page uploader (src/unnamed/part_000) is another App component
\* with the same file / loading / results / error state and no wizard or
\* queue; it runs instead of the dashboard, on the same state variables.
\* handleFileSelect, reached from the file input and from a drop
HandleFileSelect(f) ==
    /\ IF f # NoUpload /\ f.type = "application/pdf"
         THEN /\ file' = f
              /\ uiError' = ""
              /\ results' = NoResp
         ELSE /\ file' = NoUpload
              /\ uiError' = "Please select a valid PDF file"
              /\ UNCHANGED results
    /\ UNCHANGED <<now, srvVars, showWizard, wizardStep, loading, jobQueue, timers, flight>>

\* handleFileChange of the uploader
UploaderFileChange(f) ==
    /\ HandleFileSelect(f)
    /\ UNCHANGED dragActive

\* handleDrag: dragenter and dragover set dragActive, dragleave clears it
HandleDrag(type) ==
    /\ dragActive' = (type \in {"dragenter", "dragover"})
    /\ UNCHANGED <<now, srvVars, file, showWizard, wizardStep, loading, results, uiError,
                   jobQueue, timers, flight>>

\* handleDrop: a drop that carries no file selects nothing
HandleDrop(f) ==
    /\ dragActive' = FALSE
    /\ IF f # NoUpload
         THEN HandleFileSelect(f)
         ELSE UNCHANGED <<now, srvVars, file, showWizard, wizardStep, loading, results,
                          uiError, jobQueue, timers, flight>>

\* handleUpload of the uploader, up to its axios.post; its button is disabled
\* without a file and while loading
HandleUpload ==
    /\ file # NoUpload
    /\ ~loading
    /\ Len(flight) < MaxJobs
    /\ loading' = TRUE
    /\ uiError' = ""
    /\ results' = NoResp
    /\ flight' = Append(flight, "inflight")
    /\ UNCHANGED <<now, srvVars, dragActive, file, showWizard, wizardStep, jobQueue, timers>>

UploaderNext ==
    \/ \E f \in Selections : UploaderFileChange(f)
    \/ \E type \in {"dragenter", "dragover", "dragleave"} : HandleDrag(type)
    \/ \E f \in Selections : HandleDrop(f)
    \/ HandleUpload
    \/ \E c \in 1..MaxJobs, netOk \in BOOLEAN, reply \in Replies : UploadSettles(c, netOk, reply)

UploaderSpec == Init /\ [][UploaderNext]_vars

\* ------------------------------------------------- the results dashboard
\* ['Ingest', 'OCR/Layout', 'Extract', 'Feasibility', 'Compliance', 'Export']
\* by array index
StageIndexes == 0..5

\* job.stage > idx ? 'completed' : job.stage === idx + 1 ? 'active' : 'pending'
StageClass(stage, idx) ==
    IF stage > idx THEN "completed"
    ELSE IF stage = idx + 1 THEN "active"
    ELSE "pending"

\* String.prototype.toLowerCase on the values in use
ToLowerCase(str) ==
    CASE str = "Feasible" -> "feasible"
      [] str = "Risky" -> "risky"
      [] OTHER -> str

\* results.prediction?.feasibility
OptFeasibility(res) ==
    IF res.prediction.present THEN res.prediction.feasibility ELSE Undefined

\* results.prediction?.feasibility.toLowerCase(): the chain stops at a missing
\* prediction, but calls toLowerCase on a missing feasibility
StatusBadgeThrows(res) == res.prediction.present /\ res.prediction.feasibility = Undefined

StatusBadgeClass(res) ==
    IF res.prediction.present THEN ToLowerCase(res.prediction.feasibility) ELSE Undefined

\* results.prediction?.feasibility === 'feasible' ? 'FEASIBLE' : 'AT RISK' (with their icons)
StatusBadgeText(res) == IF OptFeasibility(res) = "feasible" THEN "FEASIBLE" ELSE "AT RISK"

\* the doughnut colour: green '#10b981' or amber '#f59e0b'
StatusColor(res) == IF OptFeasibility(res) = "feasible" THEN "green" ELSE "amber"

\* ------------------------------------------------------------ properties
Done(r) == pc[r] = "done"

OwnsUpload(r) == \E b \in DOMAIN uploads : uploads[b] = r

OwnsOutput(r) == \E f \in DOMAIN output : output[f].by = r

\* resolution found neither both stored-name files nor both original-name files
FellToScan(r) == seen[r].looked /\ seen[r].nstored < 2 /\ ~seen[r].original

\* C1: when the extractor wrote the pair under the original base name and no
\* file under the stored name, resolution takes the original-name pair and
\* the request ends in a success response carrying that content.
C1_OriginalNamePairResolved ==
    \A r \in ReqIds :
        (seen[r].looked /\ seen[r].nstored = 0 /\ seen[r].original) =>
            /\ chosen[r].by = "OriginalNameMatch"
            /\ Done(r) => resp[r].success /\ resp[r].txtContent # NoContent
                              /\ resp[r].jsonContent # NoContent

\* C2: once the response for a stored upload is sent, the uploaded document
\* is gone from uploads/.
C2_NoUploadOutlivesRequest ==
    \A r \in ReqIds : Done(r) => ~OwnsUpload(r)

\* C3: once a request has terminated, no .txt/.json file its extraction
\* produced remains in the output directory.
C3_NoOutputRemains ==
    \A r \in ReqIds : Done(r) => ~OwnsOutput(r)

C5_BothOrFail ==
    \A r \in ReqIds :
        Done(r) =>
            IF resp[r].success
              THEN /\ chosen[r].txt # NoFile /\ chosen[r].json # NoFile
                   /\ chosen[r].txt.base = chosen[r].json.base
                   /\ resp[r].txtContent # NoContent
                   /\ resp[r].jsonContent # NoContent
                   /\ got[r] = [txt |-> resp[r].txtContent, json |-> resp[r].jsonContent]
              ELSE /\ resp[r].status >= 400
                   /\ resp[r].txtContent = NoContent
                   /\ resp[r].jsonContent = NoContent

\* one request succeeded, another found only one file of its pair and failed
C5_Witness ==
    \E r1, r2 \in ReqIds :
        /\ Done(r1) /\ resp[r1].success
        /\ Done(r2) /\ seen[r2].looked /\ seen[r2].nstored = 1 /\ resp[r2].status = 500

\* C6: a PDF below the size limit whose extraction terminates gets exactly
\* one response: success with non-empty text and JSON holding metadata, or a
\* failure with an error.
C6_SuccessHasTextAndMetadata ==
    \A r \in ReqIds :
        (Done(r) /\ input[r].kind \in {"pdf", "empty"}) =>
            /\ nresp[r] = 1
            /\ \/ /\ resp[r].success /\ resp[r].status = 200
                  /\ resp[r].txtContent.q = "text"
                  /\ resp[r].jsonContent.q = "meta"
               \/ /\ ~resp[r].success /\ resp[r].status >= 400
                  /\ resp[r].error # ""

C8_EmptyNeverExtracted ==
    \A r \in ReqIds :
        input[r].kind = "empty" =>
            /\ invoked[r] = 0
            /\ Done(r) => resp[r].status = 400

\* C9: when the extraction process does not terminate, the stage times out,
\* the process is killed and the request gets a failure response with its
\* upload removed.
C9_HungExtractionTimesOut ==
    \A r \in ReqIds :
        (proc[r] = "hung") ~>
            (Done(r) /\ resp[r].status = 500 /\ proc[r] = "killed" /\ ~OwnsUpload(r))

\* C10: requests in progress use pairwise distinct output directories, and
\* a success response carries only output produced for its own request.
C10_PerRequestIsolation ==
    /\ \A r1, r2 \in ReqIds :
           (r1 # r2 /\ invoked[r1] > 0 /\ invoked[r2] > 0) => OutputDir(r1) # OutputDir(r2)
    /\ \A r \in ReqIds :
           (Done(r) /\ resp[r].success) =>
               resp[r].txtContent.by = r /\ resp[r].jsonContent.by = r

\* the second half of C10 alone: no response carries another request's output
C10_NoForeignContent ==
    \A r \in ReqIds :
        (Done(r) /\ resp[r].success) =>
            resp[r].txtContent.by = r /\ resp[r].jsonContent.by = r

\* a request between the arrival of its file and its response
InFlight(r) == pc[r] \notin {"idle", "done"} /\ stored[r] # NoPath

\* C11: two uploads of the same original file name that are in progress at
\* the same time are stored under distinct paths, so neither overwrites or
\* deletes the other's document.
C11_DistinctStoragePaths ==
    \A r1, r2 \in ReqIds :
        (r1 # r2 /\ InFlight(r1) /\ InFlight(r2) /\ input[r1].name = input[r2].name) =>
            stored[r1] # stored[r2]

\* C12: (the classification service being unreachable or not) a success
\* response carries a prediction object, which says ai_analysis_available =
\* false when no prediction was made; the field is never missing.
C12_PredictionFieldPresent ==
    \A r \in ReqIds :
        (Done(r) /\ resp[r].success) => "prediction" \in resp[r].fields

\* C13: every success response holds all of success, txtContent,
\* txtFilename, jsonContent, jsonFilename and prediction.
C13_ResultContract ==
    \A r \in ReqIds :
        (Done(r) /\ resp[r].success) =>
            {"success", "txtContent", "txtFilename", "jsonContent", "jsonFilename",
             "prediction"} \subseteq resp[r].fields

\* a request answered by the handler's catch block
Failed(r) == Done(r) /\ error[r] # ""

\* C16: two failing requests that differ only in the underlying error get
\* identical response bodies; the cause is not sent to the caller.
C16_FailureBodyHidesCause ==
    \A r1, r2 \in ReqIds :
        (Failed(r1) /\ Failed(r2)) => resp[r1] = resp[r2]

NothingRead == [txt |-> NoContent, json |-> NoContent]

\* C14: within one request the upload is stored before extraction starts,
\* extraction has ended before resolution starts, resolution and reading
\* have ended before the response is built, and nothing runs beside the
\* extraction.
C14_StagesInOrder ==
    \A r \in ReqIds :
        /\ invoked[r] > 0 => stored[r] # NoPath /\ pc[r] \notin {"idle", "uploading", "accepted"}
        /\ proc[r] \in {"running", "hung"} =>
               pc[r] = "extracting" /\ ~seen[r].looked /\ got[r] = NothingRead /\ nresp[r] = 0
        /\ seen[r].looked => proc[r] = "exited"
        /\ got[r] # NothingRead => seen[r].looked /\ chosen[r] # NoChoice
        /\ resp[r].success =>
               got[r].txt # NoContent /\ got[r].json # NoContent /\ proc[r] = "exited"
        /\ nresp[r] > 0 => Done(r)

C14_Witness ==
    \E r \in ReqIds :
        Done(r) /\ resp[r].success /\ chosen[r].by = "ExactMatch" /\ proc[r] = "exited"

\* C15: an exception raised in any stage after the upload was stored reaches
\* the catch block, the request is answered once with the 500 failure body,
\* and the handler has by then tried to remove the uploaded document.
C15_ExceptionsCaughtAndCleaned ==
    \A r \in ReqIds :
        error[r] # "" =>
            /\ stored[r] # NoPath
            /\ pc[r] \in {"catch", "done"}
            /\ Done(r) => /\ resp[r] = Failure(error[r])
                          /\ nresp[r] = 1
                          /\ removes[r] >= 1

C15_Witness ==
    \E r \in ReqIds :
        Done(r) /\ error[r] = "SyntaxError" /\ resp[r].status = 500 /\ removes[r] = 1

\* C17: a request starts the extraction process at most once, and a stage
\* that failed is the last one the request ran: a failed ensureDir starts no
\* extraction, a failed extraction is followed by no resolution, a failed
\* resolution by no read, and no failed request is answered with success.
C17_NoRetry ==
    \A r \in ReqIds :
        /\ invoked[r] <= 1
        /\ error[r] = "EnsureDirError" => invoked[r] = 0 /\ proc[r] = "none"
        /\ error[r] \in {"EnsureDirError", "ExecError"} =>
               ~seen[r].looked /\ chosen[r] = NoChoice
        /\ error[r] \in {"EnsureDirError", "ExecError", "TypeError",
                         "Output files not found after extraction"} =>
               got[r] = NothingRead
        /\ error[r] # "" => ~resp[r].success /\ nresp[r] <= 1

C17_Witness ==
    \E r \in ReqIds :
        /\ Done(r) /\ error[r] = "ExecError" /\ invoked[r] = 1
        /\ ~seen[r].looked /\ resp[r].status = 500

C19_SinglePairScanSucceeds ==
    \A r \in ReqIds :
        (FellToScan(r) /\ seen[r].ntxt = 1 /\ seen[r].njson = 1) =>
            /\ chosen[r].by = "DirectoryScan"
            /\ Done(r) => /\ resp[r].success
                          /\ resp[r].txtContent # NoContent
                          /\ resp[r].jsonContent # NoContent

\* C20: a job of the analysis queue is shown at its final stage only when
\* the upload started with it has been answered with success.
C20_FinalStageMeansAnalysed ==
    \A c \in DOMAIN jobQueue : jobQueue[c].stage = 6 => flight[c] = "ok"

\* C21: results whose prediction is Feasible are shown with the FEASIBLE
\* badge in green, results whose prediction is Risky with the at-risk badge.
C21_FeasibilityBadge ==
    results # NoResp =>
        /\ results.prediction.feasibility = "Feasible" =>
               StatusBadgeText(results) = "FEASIBLE" /\ StatusColor(results) = "green"
        /\ results.prediction.feasibility = "Risky" =>
               StatusBadgeText(results) = "AT RISK"

\* C22: the selected file is always null or a PDF, and after an invalid
\* selection the file is cleared and the error message is shown.
C22_OnlyPdfSelected ==
    /\ file = NoUpload \/ file.type = "application/pdf"
    /\ uiError = "Please select a valid PDF file" => file = NoUpload

\* an invalid selection made after an analysis had been started with a PDF
C22_Witness ==
    /\ Len(flight) >= 1
    /\ file = NoUpload
    /\ uiError = "Please select a valid PDF file"

\* C23: a request as the frontend's handleUpload sends it for a selected PDF
\* reaches the handler with its file (req.file is set), and is not answered
\* by the rejection of an unexpected field.
C23_ClientServerFieldAgree ==
    \A r \in ReqIds :
        (pc[r] # "idle" /\ input[r].kind \in FrontendKinds) =>
            /\ stored[r] # NoPath
            /\ Done(r) => resp[r] # ErrorMiddleware("LIMIT_UNEXPECTED_FILE")

\* C24: a success response is sent only when the upload has been removed; a
\* removal that fails after extraction, resolution and reading succeeded ends
\* the request with the 500 response; a removal that fails in the catch
\* block does not keep the failure response from being sent.
C24_SuccessOnlyAfterRemoval ==
    \A r \in ReqIds :
        /\ (Done(r) /\ resp[r].success) =>
               removes[r] = 1 /\ error[r] = "" /\ ~OwnsUpload(r)
        /\ error[r] = "EPERM" =>
               /\ got[r].txt # NoContent /\ got[r].json # NoContent
               /\ Done(r) => resp[r] = Failure("EPERM") /\ removes[r] = 2
        /\ (pc[r] = "done" /\ removes[r] >= 1 /\ OwnsUpload(r)) =>
               resp[r].status = 500 /\ nresp[r] = 1

\* one request lost its success to a failed removal, another failed in
\* extraction and could not remove its upload in the catch block either
C24_Witness ==
    \E r1, r2 \in ReqIds :
        /\ Done(r1) /\ error[r1] = "EPERM" /\ resp[r1].status = 500
        /\ Done(r2) /\ error[r2] = "ExecError" /\ OwnsUpload(r2) /\ resp[r2].status = 500

\* C25: while an upload request of handleUpload is in flight, loading is
\* true.
C25_LoadingWhileInFlight ==
    (\E c \in DOMAIN flight : flight[c] = "inflight") => loading

\* C26: a response of an upload that is not the most recently started one
\* changes neither the displayed results nor the displayed error.
C26_LateResponseIgnored ==
    [][\A c \in DOMAIN flight :
          (c < Len(flight) /\ flight[c] = "inflight" /\ flight'[c] # "inflight") =>
              (results' = results /\ uiError' = uiError)]_vars

C28_WizardStepBounds ==
    /\ [](wizardStep \in 1..4 /\ (~showWizard => wizardStep = 1))
    /\ [][/\ wizardStep' \in {1, wizardStep - 1, wizardStep, wizardStep + 1} \cap (1..4)
          /\ showWizard' # showWizard => wizardStep' = 1
          /\ Len(jobQueue') > Len(jobQueue) => showWizard /\ wizardStep = 4]_vars

\* the wizard is back at its last step after an analysis was started from it
C28_Witness ==
    /\ showWizard
    /\ wizardStep = 4
    /\ Len(jobQueue) = 1

\* C29: for a queued job at stage s the indicator at position s is active,
\* those below s are completed and those above s pending, so exactly one
\* indicator of the job is active.
C29_StageIndicators ==
    \A c \in DOMAIN jobQueue :
        LET s == jobQueue[c].stage
        IN /\ \A idx \in StageIndexes :
                  StageClass(s, idx) = IF idx + 1 = s THEN "active"
                                       ELSE IF idx + 1 < s THEN "completed"
                                       ELSE "pending"
           /\ Cardinality({idx \in StageIndexes : StageClass(s, idx) = "active"}) = 1

\* C30: building the results dashboard never throws, whatever result the
\* contract allows is displayed: with a verdict, with a prediction that has
\* no feasibility, or with no prediction.
C30_RenderNeverThrows ==
    results # NoResp => ~StatusBadgeThrows(results)
====
